---- MODULE Spec2Model ----
(***************************************************************************)
(* Hreflang analysis tool (streamlit_app.py): the rule engine              *)
(* analyze_hreflang_tag, the page analyzer analyze_single_url, the batch   *)
(* loop of main, the reports generate_summary / generate_fixes and the     *)
(* sitemap resolver extract_urls_from_sitemap.                             *)
(*                                                                         *)
(* A Python str is modelled as a sequence of atoms.  An atom is a single   *)
(* character, except that a literal of the program that is never taken     *)
(* apart (a message, a language name) is kept as one atom.  The separator  *)
(* "; " is the two atoms ";" and " ", so join and split work on            *)
(* characters.                                                             *)
(***************************************************************************)
EXTENDS Integers, Sequences, FiniteSets, TLC

VARIABLES
  \* rule engine, called on its own (SpecTag)
  lang, href, source_url, all_tags, tag_out, tag_pc,
  \* batch loop of main (Spec)
  urls, i, results, results_data, analysis_complete, calls, pc, summary, fixes,
  \* generate_summary (SpecSummary)
  sum_in, sum_perm, sum_out, sum_out_perm, sum_pc,
  \* extract_urls_from_sitemap (SpecSitemap)
  web, handler_fits, stack, ret, reported, fetches, overflowed, sm_pc

tagVars == <<lang, href, source_url, all_tags, tag_out, tag_pc>>
mainVars ==
  <<urls, i, results, results_data, analysis_complete, calls, pc, summary, fixes>>
sumVars == <<sum_in, sum_perm, sum_out, sum_out_perm, sum_pc>>
smVars == <<web, handler_fits, stack, ret, reported, fetches, overflowed, sm_pc>>
vars == <<tagVars, mainVars, sumVars, smVars>>

----------------------------------------------------------------------------
(* Bounds *)

\* longest language tag drawn over TagAlphabet
MaxTagLen == 5
\* longest URL list given to a batch run
MaxUrls == 3
\* most <link rel="alternate" hreflang> elements on a page analysed on its own
MaxPageLinks == 3
\* most records in a collection given to generate_summary
MaxSummaryRecords == 3
\* most <sitemap><loc> entries of a sitemap index
MaxChildren == 2
\* nested calls of extract_urls_from_sitemap the interpreter's stack holds
\* (sys.getrecursionlimit() of CPython, scaled down): a deeper call raises
\* RecursionError
RecursionLimit == 2

----------------------------------------------------------------------------
(* Strings *)

Lowercase ==
  {"a","b","c","d","e","f","g","h","i","j","k","l","m",
   "n","o","p","q","r","s","t","u","v","w","x","y","z"}

UpperLetters == <<"A","B","C","D","E","F","G","H","I","J","K","L","M",
                  "N","O","P","Q","R","S","T","U","V","W","X","Y","Z">>
LowerLetters == <<"a","b","c","d","e","f","g","h","i","j","k","l","m",
                  "n","o","p","q","r","s","t","u","v","w","x","y","z">>

\* str.lower() / str.upper(), character by character
LowerChar(c) ==
  IF \E k \in 1..26 : UpperLetters[k] = c
  THEN LowerLetters[CHOOSE k \in 1..26 : UpperLetters[k] = c]
  ELSE c
UpperChar(c) ==
  IF \E k \in 1..26 : LowerLetters[k] = c
  THEN UpperLetters[CHOOSE k \in 1..26 : LowerLetters[k] = c]
  ELSE c
str_lower(s) == [k \in 1..Len(s) |-> LowerChar(s[k])]
str_upper(s) == [k \in 1..Len(s) |-> UpperChar(s[k])]

\* s.startswith(p)
StartsWith(s, p) == Len(p) <= Len(s) /\ SubSeq(s, 1, Len(p)) = p
\* sub in s
Contains(s, sub) ==
  \E k \in 1..(Len(s) - Len(sub) + 1) : SubSeq(s, k, k + Len(sub) - 1) = sub
\* index of the first occurrence of sep in s, 0 when there is none
FindFirst(s, sep) ==
  IF Contains(s, sep)
  THEN CHOOSE k \in 1..(Len(s) - Len(sep) + 1) :
         /\ SubSeq(s, k, k + Len(sep) - 1) = sep
         /\ \A m \in 1..(k - 1) : SubSeq(s, m, m + Len(sep) - 1) # sep
  ELSE 0

\* s.split(sep): the list of pieces
RECURSIVE str_split(_, _)
str_split(s, sep) ==
  LET k == FindFirst(s, sep) IN
  IF k = 0 THEN <<s>>
  ELSE <<SubSeq(s, 1, k - 1)>> \o str_split(SubSeq(s, k + Len(sep), Len(s)), sep)

\* sep.join(parts)
RECURSIVE str_join(_, _)
str_join(sep, parts) ==
  IF parts = <<>> THEN <<>>
  ELSE IF Len(parts) = 1 THEN parts[1]
  ELSE parts[1] \o sep \o str_join(sep, Tail(parts))

DASH == <<"-">>
SEP == <<";", " ">>
HTTP == <<"h","t","t","p",":","/","/">>
HTTPS == <<"h","t","t","p","s",":","/","/">>
SITEMAP == <<"s","i","t","e","m","a","p">>
X_DEFAULT == <<"x","-","d","e","f","a","u","l","t">>

----------------------------------------------------------------------------
(* analyze_hreflang_tag *)

\* the pattern [a-z]{2}(-[a-z]{2})? against the whole of s
LangCore(s) ==
  \/ Len(s) = 2 /\ s[1] \in Lowercase /\ s[2] \in Lowercase
  \/ /\ Len(s) = 5
     /\ s[1] \in Lowercase /\ s[2] \in Lowercase
     /\ s[3] = "-"
     /\ s[4] \in Lowercase /\ s[5] \in Lowercase

\* re.match(r'^[a-z]{2}(-[a-z]{2})?$', s): without re.MULTILINE, $ matches at
\* the end of the string and also just before a newline that ends the string
re_match_lang(s) ==
  \/ LangCore(s)
  \/ Len(s) >= 1 /\ s[Len(s)] = "\n" /\ LangCore(SubSeq(s, 1, Len(s) - 1))

ERR_FORMAT == <<"Invalid hreflang format">>
ERR_SELF == <<"Self-reference without region">>
ERR_URL == <<"Invalid URL format">>
WARN_DOMAIN == <<"Alternate URL not in same domain">>
WARN_FALLBACK(base) == <<"Missing region-independent link for ">> \o base

\* lang.split('-')[0]
base_lang(l) == str_split(l, DASH)[1]

format_check(l) ==
  IF ~re_match_lang(l) /\ l # X_DEFAULT THEN <<ERR_FORMAT>> ELSE <<>>

\* mutant: the test for a '-' in the tag is left out
self_reference_check_any_tag(l, h, src) ==
  IF h = src /\ l # X_DEFAULT THEN <<ERR_SELF>> ELSE <<>>

self_reference_check(l, h, src) ==
  IF h = src /\ ~Contains(l, DASH) /\ l # X_DEFAULT THEN <<ERR_SELF>> ELSE <<>>

fallback_check(l, tags) ==
  IF Contains(l, DASH)
  THEN LET has_fallback == \E k \in 1..Len(tags) : tags[k][1] = base_lang(l)
       IN IF ~has_fallback THEN <<WARN_FALLBACK(base_lang(l))>> ELSE <<>>
  ELSE <<>>

url_check(h) ==
  IF ~(StartsWith(h, HTTP) \/ StartsWith(h, HTTPS)) THEN <<ERR_URL>> ELSE <<>>

domain_check(h, src) ==
  IF ~Contains(h, SITEMAP) /\ ~StartsWith(h, src) THEN <<WARN_DOMAIN>> ELSE <<>>

analyze_hreflang_tag(l, h, src, tags) ==
  [warnings |-> fallback_check(l, tags) \o domain_check(h, src),
   errors |-> format_check(l) \o self_reference_check(l, h, src) \o url_check(h)]

----------------------------------------------------------------------------
(* get_language_name, get_region_name *)

languages ==
  { << <<"e","n">>, <<"English">> >>, << <<"a","r">>, <<"Arabic">> >>,
    << <<"e","s">>, <<"Spanish">> >>, << <<"f","r">>, <<"French">> >>,
    << <<"d","e">>, <<"German">> >>, << <<"j","a">>, <<"Japanese">> >>,
    << <<"k","o">>, <<"Korean">> >>, << <<"z","h">>, <<"Chinese">> >>,
    << <<"r","u">>, <<"Russian">> >>, << <<"p","t">>, <<"Portuguese">> >>,
    << <<"i","t">>, <<"Italian">> >>, << <<"n","l">>, <<"Dutch">> >>,
    << <<"t","r">>, <<"Turkish">> >>, << <<"s","v">>, <<"Swedish">> >>,
    << <<"p","l">>, <<"Polish">> >>, << <<"v","i">>, <<"Vietnamese">> >>,
    << <<"t","h">>, <<"Thai">> >>, << <<"i","d">>, <<"Indonesian">> >>,
    << <<"m","s">>, <<"Malaysian">> >>, << <<"h","i">>, <<"Hindi">> >> }

regions ==
  { << <<"u","s">>, <<"United States">> >>, << <<"g","b">>, <<"United Kingdom">> >>,
    << <<"a","e">>, <<"United Arab Emirates">> >>, << <<"s","a">>, <<"Saudi Arabia">> >>,
    << <<"k","w">>, <<"Kuwait">> >>, << <<"q","a">>, <<"Qatar">> >>,
    << <<"o","m">>, <<"Oman">> >>, << <<"b","h">>, <<"Bahrain">> >>,
    << <<"e","g">>, <<"Egypt">> >>, << <<"i","q">>, <<"Iraq">> >>,
    << <<"j","o">>, <<"Jordan">> >>, << <<"l","b">>, <<"Lebanon">> >>,
    << <<"l","y">>, <<"Libya">> >>, << <<"p","s">>, <<"Palestinian Territory">> >>,
    << <<"s","d">>, <<"Sudan">> >>, << <<"s","o">>, <<"Somalia">> >>,
    << <<"s","y">>, <<"Syria">> >>, << <<"y","e">>, <<"Yemen">> >>,
    << <<"a","u">>, <<"Australia">> >>, << <<"c","a">>, <<"Canada">> >>,
    << <<"i","n">>, <<"India">> >>, << <<"p","k">>, <<"Pakistan">> >>,
    << <<"b","d">>, <<"Bangladesh">> >>, << <<"c","n">>, <<"China">> >>,
    << <<"j","p">>, <<"Japan">> >>, << <<"k","r">>, <<"South Korea">> >>,
    << <<"d","e">>, <<"Germany">> >>, << <<"f","r">>, <<"France">> >>,
    << <<"i","t">>, <<"Italy">> >>, << <<"e","s">>, <<"Spain">> >>,
    << <<"r","u">>, <<"Russia">> >>, << <<"b","r">>, <<"Brazil">> >>,
    << <<"m","x">>, <<"Mexico">> >>, << <<"a","r">>, <<"Argentina">> >> }

\* table.get(code, code)
dict_get(table, code) ==
  IF \E e \in table : e[1] = code
  THEN (CHOOSE e \in table : e[1] = code)[2]
  ELSE code

get_language_name(code) == dict_get(languages, code)
get_region_name(code) == dict_get(regions, code)

----------------------------------------------------------------------------
(* analyze_single_url *)

\* urllib.parse.urljoin(base, h) for the references the pages of the model hold:
\* a network-path reference //host, an absolute path /p, a reference with a
\* scheme of its own, and a relative path without dot segments; base is
\* scheme://host/path.  urlsplit raises ValueError ("Invalid IPv6 URL") on a
\* host with an unmatched bracket.
SLASH == <<"/">>
SLASH2 == <<"/", "/">>
COLON == <<":">>

urljoin_raises(h) ==
  StartsWith(h, SLASH2) /\ (Contains(h, <<"[">>) # Contains(h, <<"]">>))

url_scheme(u) == SubSeq(u, 1, FindFirst(u, COLON) - 1)
\* scheme://host of a base URL
url_origin(u) ==
  LET k == FindFirst(u, SLASH2)
      rest == SubSeq(u, k + 2, Len(u))
      m == FindFirst(rest, SLASH)
  IN IF m = 0 THEN u ELSE SubSeq(u, 1, k + 1 + m - 1)
\* the base URL up to and including the last '/' of its path
url_dir(u) ==
  LET o == url_origin(u)
      last == IF \E k \in (Len(o) + 1)..Len(u) : u[k] = "/"
              THEN CHOOSE k \in (Len(o) + 1)..Len(u) :
                     u[k] = "/" /\ \A m \in (k + 1)..Len(u) : u[m] # "/"
              ELSE 0
  IN IF last = 0 THEN o \o SLASH ELSE SubSeq(u, 1, last)
has_scheme(h) ==
  LET k == FindFirst(h, COLON)
  IN k > 1 /\ \A m \in 1..(k - 1) : h[m] \in Lowercase

urljoin(base, h) ==
  IF StartsWith(h, SLASH2) THEN url_scheme(base) \o COLON \o h
  ELSE IF StartsWith(h, SLASH) THEN url_origin(base) \o h
  ELSE IF has_scheme(h) THEN h
  ELSE url_dir(base) \o h

is_absolute_http(h) == StartsWith(h, HTTP) \/ StartsWith(h, HTTPS)

\* the href of one <link> as line 122-125 leaves it
resolve_href(url, h) ==
  IF h # <<>> /\ ~is_absolute_http(h) THEN urljoin(url, h) ELSE h

\* the except branch: the single record of a page that could not be analysed
error_record(url, exc) ==
  [url |-> url,
   hreflang_count |-> 0,
   self_ref |-> "No",
   hreflang_tag |-> <<>>,
   language |-> <<>>,
   region |-> <<>>,
   alt_url |-> <<>>,
   warnings |-> <<>>,
   errors |-> <<"Failed to analyze: ">> \o exc]

\* the extraction loop over soup.find_all('link', rel='alternate', hreflang=True)
extract_hreflang_tags(url, links) ==
  [k \in 1..Len(links) |->
     <<str_lower(links[k].hreflang), resolve_href(url, links[k].href)>>]

\* mutant: the distinct target URLs are counted
hreflang_count_distinct_targets(hreflang_tags) ==
  Cardinality({hreflang_tags[k][2] : k \in 1..Len(hreflang_tags)})

\* len(hreflang_tags)
hreflang_count(hreflang_tags) == Len(hreflang_tags)

\* the record of one declaration (lines 134-156)
tag_record(url, hreflang_tags, self_ref, k) ==
  LET l == hreflang_tags[k][1]
      h == hreflang_tags[k][2]
      found == analyze_hreflang_tag(l, h, url, hreflang_tags)
      lang_parts == str_split(l, DASH)
      language == lang_parts[1]
      region == IF Len(lang_parts) > 1 THEN lang_parts[2] ELSE <<>>
  IN [url |-> url,
      hreflang_count |-> hreflang_count(hreflang_tags),
      self_ref |-> IF self_ref THEN "Yes" ELSE "No",
      hreflang_tag |-> l,
      language |-> get_language_name(language),
      region |-> get_region_name(region),
      alt_url |-> h,
      warnings |-> str_join(SEP, found.warnings),
      errors |-> str_join(SEP, found.errors)]

\* the try block: what it raises, or the records it returns.  outcome is what
\* the fetch gives: [kind |-> "fail", exc] when requests.get, raise_for_status
\* or the parse raises, [kind |-> "ok", links] with the <link> elements found.
try_analyze(url, outcome) ==
  IF outcome.kind = "fail" THEN [raised |-> TRUE, exc |-> outcome.exc]
  ELSE IF \E k \in 1..Len(outcome.links) :
            LET h == outcome.links[k].href
            IN h # <<>> /\ ~is_absolute_http(h) /\ urljoin_raises(h)
  THEN [raised |-> TRUE, exc |-> <<"Invalid IPv6 URL">>]
  ELSE LET hreflang_tags == extract_hreflang_tags(url, outcome.links)
           self_ref == \E k \in 1..Len(hreflang_tags) : hreflang_tags[k][2] = url
       IN [raised |-> FALSE,
           results |-> [k \in 1..Len(hreflang_tags) |->
                          tag_record(url, hreflang_tags, self_ref, k)]]

\* mutant: the records built before the failing declaration are returned with
\* the error record
analyze_single_url_partial(url, outcome) ==
  LET t == try_analyze(url, outcome)
      bad == IF outcome.kind = "ok"
             THEN {k \in 1..Len(outcome.links) : urljoin_raises(outcome.links[k].href)}
             ELSE {}
      upto == IF bad = {} THEN 0
              ELSE (CHOOSE k \in bad : \A m \in bad : k <= m) - 1
  IN IF ~t.raised THEN t.results
     ELSE IF bad = {} THEN <<error_record(url, t.exc)>>
     ELSE try_analyze(url, [kind |-> "ok", links |-> SubSeq(outcome.links, 1, upto)]).results
            \o <<error_record(url, t.exc)>>

analyze_single_url(url, outcome) ==
  LET t == try_analyze(url, outcome)
  IN IF t.raised THEN <<error_record(url, t.exc)>> ELSE t.results

----------------------------------------------------------------------------
(* generate_summary *)

\* mutant: a key is only looked for in the entry added last
dict_inc_last_only(d, key) ==
  IF d # <<>> /\ d[Len(d)][1] = key
  THEN [d EXCEPT ![Len(d)] = <<key, d[Len(d)][2] + 1>>]
  ELSE Append(d, <<key, 1>>)

\* a dict of counts in insertion order, as a sequence of <<key, count>>
dict_inc(d, key) ==
  IF \E k \in 1..Len(d) : d[k][1] = key
  THEN LET k == CHOOSE k \in 1..Len(d) : d[k][1] = key
       IN [d EXCEPT ![k] = <<key, d[k][2] + 1>>]
  ELSE Append(d, <<key, 1>>)

\* for piece in field.split('; '): if piece: d[piece] = d.get(piece, 0) + 1
RECURSIVE count_pieces(_, _)
count_pieces(d, pieces) ==
  IF pieces = <<>> THEN d
  ELSE count_pieces(IF pieces[1] # <<>> THEN dict_inc(d, pieces[1]) ELSE d,
                    Tail(pieces))

\* the loop of lines 200-206 over one field of every record
RECURSIVE common_issues(_, _, _)
common_issues(d, rd, fld) ==
  IF rd = <<>> THEN d
  ELSE common_issues(count_pieces(d, str_split(rd[1][fld], SEP)), Tail(rd), fld)

generate_summary(rd) ==
  [total_entries |-> Len(rd),
   unique_urls |-> Cardinality({rd[k].url : k \in 1..Len(rd)}),
   languages |-> Cardinality({rd[k].language : k \in {m \in 1..Len(rd) : rd[m].language # <<>>}}),
   regions |-> Cardinality({rd[k].region : k \in {m \in 1..Len(rd) : rd[m].region # <<>>}}),
   warnings |-> Cardinality({k \in 1..Len(rd) : rd[k].warnings # <<>>}),
   errors |-> Cardinality({k \in 1..Len(rd) : rd[k].errors # <<>>}),
   common_warnings |-> common_issues(<<>>, rd, "warnings"),
   common_errors |-> common_issues(<<>>, rd, "errors")]

----------------------------------------------------------------------------
(* generate_fixes *)

FIX_FALLBACK(l) == <<"MISSING REGION-INDEPENDENT TAG FOR ">> \o str_upper(l) \o COLON

\* the keys of url_groups in first-seen order
RECURSIVE group_urls(_, _)
group_urls(seen, rd) ==
  IF rd = <<>> THEN seen
  ELSE group_urls(IF \E k \in 1..Len(seen) : seen[k] = rd[1].url
                  THEN seen ELSE Append(seen, rd[1].url),
                  Tail(rd))

\* url_groups[url]: the records of url in collection order
RECURSIVE group_entries(_, _)
group_entries(url, rd) ==
  IF rd = <<>> THEN <<>>
  ELSE (IF rd[1].url = url THEN <<rd[1]>> ELSE <<>>) \o group_entries(url, Tail(rd))

languages_with_regions(entries) ==
  {base_lang(entries[k].hreflang_tag) :
     k \in {m \in 1..Len(entries) : Contains(entries[m].hreflang_tag, DASH)}}

\* mutant: a tag that starts with the subtag counts as the fallback
fix_has_fallback_prefix(entries, l) ==
  \E k \in 1..Len(entries) : StartsWith(entries[k].hreflang_tag, l)

fix_has_fallback(entries, l) ==
  \E k \in 1..Len(entries) : entries[k].hreflang_tag = l

RECURSIVE flagged_entries(_)
flagged_entries(entries) ==
  IF entries = <<>> THEN <<>>
  ELSE (IF entries[1].warnings # <<>> \/ entries[1].errors # <<>>
        THEN <<entries[1]>> ELSE <<>>) \o flagged_entries(Tail(entries))

\* the block of the report written for one URL: its heading, the missing
\* self-reference fix, the missing fallback fixes (a Python set is iterated in
\* no fixed order, so they are kept as a set of headings) and the flagged tags
fixes_for_url(url, entries) ==
  [url |-> url,
   missing_self_reference |-> ~\E k \in 1..Len(entries) : entries[k].self_ref = "Yes",
   missing_fallback |->
     {FIX_FALLBACK(l) : l \in {b \in languages_with_regions(entries) :
                                  ~fix_has_fallback(entries, b)}},
   tags |-> flagged_entries(entries)]

generate_fixes(rd) ==
  LET keys == group_urls(<<>>, rd)
  IN [k \in 1..Len(keys) |-> fixes_for_url(keys[k], group_entries(keys[k], rd))]

----------------------------------------------------------------------------
(* Values of the variables a specification does not use *)

IdleTag ==
  /\ lang = <<>> /\ href = <<>> /\ source_url = <<>> /\ all_tags = <<>>
  /\ tag_out = <<>> /\ tag_pc = "idle"
IdleMain ==
  /\ urls = <<>> /\ i = 0 /\ results = <<>> /\ results_data = <<>>
  /\ analysis_complete = FALSE /\ calls = <<>> /\ pc = "idle"
  /\ summary = <<>> /\ fixes = <<>>
IdleSummary ==
  /\ sum_in = <<>> /\ sum_perm = <<>> /\ sum_out = <<>> /\ sum_out_perm = <<>>
  /\ sum_pc = "idle"
IdleSitemap ==
  /\ web = <<>> /\ handler_fits = TRUE /\ stack = <<>> /\ ret = <<>> /\ reported = <<>>
  /\ fetches = <<>> /\ overflowed = FALSE /\ sm_pc = "idle"

----------------------------------------------------------------------------
(* SpecTag: analyze_hreflang_tag applied to bounded inputs *)

Range(s) == {s[k] : k \in 1..Len(s)}
Count(s, x) == Cardinality({k \in 1..Len(s) : s[k] = x})
StringsUpTo(alphabet, n) == UNION {[1..m -> alphabet] : m \in 0..n}

U_A == HTTP \o <<"a", "/">>
U_AB == HTTP \o <<"a", "/", "b">>
U_B == HTTPS \o <<"b", "/">>
EE == <<"e", "e">>

TagAlphabet == {"e", "N", "-", "\n"}
TagInputs ==
  StringsUpTo(TagAlphabet, MaxTagLen) \cup {X_DEFAULT, X_DEFAULT \o <<"\n">>}
TagHrefInputs ==
  {U_A, U_AB, U_B, <<>>, <<"/">> \o SITEMAP, <<"f","t","p",":","/","/","a","/">>}
TagSourceInputs == {U_A, U_AB}
TagOtherInputs == {<<>>, << <<EE, U_B>> >>, << <<<<>>, U_B>> >>}
RetagInputs == {X_DEFAULT, EE \o DASH \o EE, EE}

TagInit ==
  /\ lang \in TagInputs
  /\ href \in TagHrefInputs
  /\ source_url \in TagSourceInputs
  /\ \E others \in TagOtherInputs : all_tags = << <<lang, href>> >> \o others
  /\ tag_out = <<>>
  /\ tag_pc = "call"
  /\ IdleMain /\ IdleSummary /\ IdleSitemap

\* one call of analyze_hreflang_tag(lang, href, source_url, all_tags)
AnalyzeTag ==
  /\ tag_pc = "call"
  /\ tag_out' = analyze_hreflang_tag(lang, href, source_url, all_tags)
  /\ tag_pc' = "done"
  /\ UNCHANGED <<lang, href, source_url, all_tags, mainVars, sumVars, smVars>>

\* the same declaration analysed again under another tag, target and source kept
Retag ==
  /\ tag_pc = "done"
  /\ \E l \in RetagInputs :
       /\ l # lang
       /\ lang' = l
       /\ all_tags' = << <<l, href>> >> \o Tail(all_tags)
       /\ tag_out' = analyze_hreflang_tag(l, href, source_url, all_tags')
  /\ UNCHANGED <<href, source_url, tag_pc, mainVars, sumVars, smVars>>

TagNext == AnalyzeTag \/ Retag
SpecTag == TagInit /\ [][TagNext]_vars

----------------------------------------------------------------------------
(* main: the batch loop (lines 321-341) and the report tabs (343-373) *)

EN == <<"e", "n">>
EN_US_RAW == <<"e", "n", "-", "U", "S">>
EN_GB_RAW == <<"e", "n", "-", "G", "B">>
BAD_HOST == <<"/", "/", "[">>
Link(t, h) == [hreflang |-> t, href |-> h]
Page(links) == [kind |-> "ok", links |-> links]
Failure(exc) == [kind |-> "fail", exc |-> exc]

PageUrls == {U_A, U_AB}

FetchFailures ==
  {Failure(<<"Read timed out.">>), Failure(<<"404 Client Error">>), Failure(<<>>)}

\* what a fetch of the batch run may give
BatchOutcomes ==
  {Failure(<<"Read timed out.">>),
   Page(<<>>),
   Page(<<Link(EN, SLASH)>>),
   Page(<<Link(EN_US_RAW, U_B), Link(EN_GB_RAW, U_B)>>),
   Page(<<Link(EN_US_RAW, U_B), Link(EN, U_A)>>),
   Page(<<Link(X_DEFAULT, SLASH), Link(EN, U_B), Link(EN, BAD_HOST)>>),
   Page(<<Link(X_DEFAULT, SLASH)>>)}

\* what the fetch of a page analysed on its own may give
PageTagInputs == {EN, EN_US_RAW, EN_GB_RAW, X_DEFAULT}
PageHrefInputs == {SLASH, U_B, <<>>, BAD_HOST}
PageLinks == {Link(t, h) : t \in PageTagInputs, h \in PageHrefInputs}
PageOutcomes ==
  FetchFailures \cup {Page(l) : l \in StringsUpTo(PageLinks, MaxPageLinks)}

\* the script has run once, the URL list is entered, the button is not pressed
MainInitOver(lists) ==
  /\ urls \in lists
  /\ i = 0
  /\ results = <<>>
  /\ results_data = <<>>
  /\ analysis_complete = FALSE
  /\ calls = <<>>
  /\ pc = "ready"
  /\ summary = <<>>
  /\ fixes = <<>>
  /\ IdleTag /\ IdleSummary /\ IdleSitemap

\* if st.button("Start Analysis") and urls: (lines 321-328)
StartAnalysis ==
  /\ pc = "ready"
  /\ urls # <<>>
  /\ results_data' = <<>>
  /\ results' = <<>>
  /\ i' = 0
  /\ pc' = "loop"
  /\ UNCHANGED <<urls, analysis_complete, calls, summary, fixes, tagVars, sumVars, smVars>>

\* mutant: the loop ends at the first entry whose fetch failed
AnalyzeStepAbort(outcomes) ==
  /\ pc = "loop"
  /\ i < Len(urls)
  /\ \E outcome \in outcomes :
       LET url == urls[i + 1]
           result == analyze_single_url(url, outcome)
       IN /\ results' = results \o result
          /\ calls' = Append(calls, [url |-> url, outcome |-> outcome, result |-> result])
          /\ i' = IF outcome.kind = "fail" THEN Len(urls) ELSE i + 1
  /\ UNCHANGED <<urls, results_data, analysis_complete, pc, summary, fixes,
                 tagVars, sumVars, smVars>>

\* one iteration of for i, url in enumerate(urls) (lines 330-335); calls logs
\* each invocation of analyze_single_url: its argument, what the fetch gave
\* and what it returned
AnalyzeStepOver(outcomes) ==
  /\ pc = "loop"
  /\ i < Len(urls)
  /\ \E outcome \in outcomes :
       LET url == urls[i + 1]
           result == analyze_single_url(url, outcome)
       IN /\ results' = results \o result
          /\ calls' = Append(calls, [url |-> url, outcome |-> outcome, result |-> result])
  /\ i' = i + 1
  /\ UNCHANGED <<urls, results_data, analysis_complete, pc, summary, fixes,
                 tagVars, sumVars, smVars>>

AnalyzeStep == AnalyzeStepOver(BatchOutcomes)
AnalyzePage == AnalyzeStepOver(PageOutcomes)

\* the loop is over: lines 337-341
FinishAnalysis ==
  /\ pc = "loop"
  /\ i = Len(urls)
  /\ results_data' = results
  /\ analysis_complete' = TRUE
  /\ pc' = "done"
  /\ UNCHANGED <<urls, i, results, calls, summary, fixes, tagVars, sumVars, smVars>>

\* the Results and Fixes tabs of the same script run (lines 343-373)
RenderReports ==
  /\ pc = "done"
  /\ IF analysis_complete /\ results_data # <<>>
     THEN /\ summary' = generate_summary(results_data)
          /\ fixes' = generate_fixes(results_data)
     ELSE UNCHANGED <<summary, fixes>>
  /\ pc' = "shown"
  /\ UNCHANGED <<urls, i, results, results_data, analysis_complete, calls,
                 tagVars, sumVars, smVars>>

Init == MainInitOver(StringsUpTo(PageUrls, MaxUrls))
Next == StartAnalysis \/ AnalyzeStep \/ FinishAnalysis \/ RenderReports
Spec == Init /\ [][Next]_vars
\* the script run that the button starts goes on to the end of the loop: the
\* loop is sequential and waits on nothing but a fetch, and requests.get is
\* given a timeout
FairSpec ==
  Spec /\ WF_vars(StartAnalysis) /\ WF_vars(AnalyzeStep) /\ WF_vars(FinishAnalysis)

\* one page analysed on its own: a URL list of one entry
PageInit == MainInitOver({<<u>> : u \in PageUrls})
PageNext == StartAnalysis \/ AnalyzePage \/ FinishAnalysis \/ RenderReports
SpecPage == PageInit /\ [][PageNext]_vars

----------------------------------------------------------------------------
(* Claims about the batch loop and the page analyzer *)

RECURSIVE Flatten(_)
Flatten(ss) == IF ss = <<>> THEN <<>> ELSE ss[1] \o Flatten(Tail(ss))

Finished == pc \in {"done", "shown"}
DistinctUrls == \A a, b \in 1..Len(urls) : urls[a] = urls[b] => a = b
\* the messages of a joined warnings or errors field
Messages(field) == {m \in Range(str_split(field, SEP)) : m # <<>>}

C1_Safety ==
  /\ Len(calls) = i
  /\ i <= Len(urls)
  /\ \A k \in 1..Len(calls) : calls[k].url = urls[k]
  /\ results = Flatten([k \in 1..Len(calls) |-> calls[k].result])
  /\ Finished => /\ Len(calls) = Len(urls)
                 /\ results_data = results
                 /\ analysis_complete

\* C1: analyze_single_url is invoked exactly once per list entry, in list
\* order, whatever the earlier entries gave; the loop completes and the stored
\* collection is the concatenation of the per-URL results in list order.
C1_BatchLoop == [](C1_Safety) /\ <>(urls = <<>> \/ Finished)

\* a failed first entry, then entries that were still analysed
C1_Witness ==
  /\ pc = "shown"
  /\ Len(urls) >= 3
  /\ calls[1].outcome.kind = "fail"
  /\ calls[2].outcome.kind = "ok" /\ Len(calls[2].result) = 2
  /\ calls[3].outcome.kind = "fail"
  /\ Len(results_data) = 4

\* the fetch or the analysis of the page of a call failed
CallFailed(c) ==
  \/ c.outcome.kind = "fail"
  \/ /\ c.outcome.kind = "ok"
     /\ \E k \in 1..Len(c.outcome.links) : c.outcome.links[k].href = BAD_HOST

\* C2: a page whose fetch or parse fails yields exactly one record, with
\* hreflang_count 0, self_ref 'No', empty tag, language, region, target and
\* warnings and a non-empty errors field, and nothing else.
C2_FailureIsOneRecord ==
  \A k \in 1..Len(calls) :
    CallFailed(calls[k]) =>
      /\ Len(calls[k].result) = 1
      /\ LET r == calls[k].result[1]
         IN /\ r.url = calls[k].url
            /\ r.hreflang_count = 0
            /\ r.self_ref = "No"
            /\ r.hreflang_tag = <<>> /\ r.language = <<>> /\ r.region = <<>>
            /\ r.alt_url = <<>>
            /\ r.warnings = <<>>
            /\ r.errors # <<>>

\* two declarations were read before the third made the analysis fail
C2_Witness ==
  /\ pc = "shown"
  /\ calls[1].outcome.kind = "ok"
  /\ Len(calls[1].outcome.links) = 3
  /\ calls[1].outcome.links[1].href = U_B
  /\ calls[1].outcome.links[3].href = BAD_HOST
  /\ Len(results_data) = 1
  /\ results_data[1].hreflang_count = 0

RecordsOf(u) == {k \in 1..Len(results_data) : results_data[k].url = u}

\* C4 as stated: records sharing a source URL carry the same hreflang_count,
\* which is the number of records emitted for that URL, for every URL list.
C4_SameCountPerUrl ==
  Finished =>
    \A a \in 1..Len(results_data) :
      /\ \A b \in 1..Len(results_data) :
           results_data[a].url = results_data[b].url
             => results_data[a].hreflang_count = results_data[b].hreflang_count
      /\ results_data[a].hreflang_count = Cardinality(RecordsOf(results_data[a].url))

\* the <link> elements the analysis of a call found: all of the page, or none
\* when the fetch or the analysis failed
ElementsFound(c) == IF CallFailed(c) THEN 0 ELSE Len(c.outcome.links)

\* C4 amended: when no URL occurs twice in the list, records sharing a source
\* URL carry the same hreflang_count; for a page analysed without failure it
\* is the number of <link> elements found, which is the number of records of
\* that URL; the single record of a failed page carries 0.
C4_SameCountPerDistinctUrl ==
  (Finished /\ DistinctUrls) =>
    \A k \in 1..Len(calls) :
      LET recs == RecordsOf(calls[k].url)
      IN /\ \A a \in recs : results_data[a].hreflang_count = ElementsFound(calls[k])
         /\ IF CallFailed(calls[k])
            THEN Cardinality(recs) = 1
            ELSE Cardinality(recs) = Len(calls[k].outcome.links)

C4_Witness ==
  /\ pc = "shown"
  /\ Len(urls) = 2 /\ DistinctUrls
  /\ CallFailed(calls[1])
  /\ Len(results_data) = 3
  /\ results_data[2].hreflang_count = 2 /\ results_data[3].hreflang_count = 2

\* the tag names a region: it has a '-' and is not the literal x-default
HasRegion(t) == Contains(t, DASH) /\ t # X_DEFAULT
Subtags(tags) == {EN, <<"x">>, <<>>} \cup {base_lang(tags[k][1]) : k \in 1..Len(tags)}

\* C6: a declaration carries "Missing region-independent link for xx" exactly
\* when its tag has a region with primary subtag xx and no declaration of the
\* page has the bare tag xx; a bare tag and x-default never carry it.
C6_FallbackWarningExact ==
  \A c \in 1..Len(calls) :
    ~CallFailed(calls[c]) =>
      LET tags == extract_hreflang_tags(calls[c].url, calls[c].outcome.links)
      IN \A k \in 1..Len(tags) : \A xx \in Subtags(tags) :
           WARN_FALLBACK(xx) \in Messages(calls[c].result[k].warnings)
             <=> /\ HasRegion(tags[k][1])
                 /\ base_lang(tags[k][1]) = xx
                 /\ \A m \in 1..Len(tags) : tags[m][1] # xx

FixEmitted(u, xx) ==
  \E b \in 1..Len(fixes) :
    fixes[b].url = u /\ FIX_FALLBACK(xx) \in fixes[b].missing_fallback
WarningCarried(u, xx) ==
  \E k \in RecordsOf(u) : WARN_FALLBACK(xx) \in Messages(results_data[k].warnings)

\* C10: in a run whose URL list holds no URL twice, generate_fixes emits the
\* missing-fallback suggestion for subtag xx under URL u exactly when a record
\* of u carries the warning "Missing region-independent link for xx".
C10_FixesAgreeWithWarnings ==
  (pc = "shown" /\ DistinctUrls) =>
    \A u \in Range(urls) :
      \A xx \in Subtags([k \in 1..Len(results_data) |-> <<results_data[k].hreflang_tag>>]) :
        FixEmitted(u, xx) <=> WarningCarried(u, xx)

\* one page lacks the fallback for en, another page has it
C10_Witness ==
  /\ pc = "shown"
  /\ Len(urls) = 2 /\ DistinctUrls
  /\ FixEmitted(urls[1], EN)
  /\ ~FixEmitted(urls[2], EN)
  /\ \E k \in RecordsOf(urls[2]) : HasRegion(results_data[k].hreflang_tag)

----------------------------------------------------------------------------
(* SpecSummary: generate_summary applied to a collection and to a shuffle of it *)

SummaryOutcomes ==
  {Failure(<<"Read timed out.">>),
   Page(<<Link(EN, SLASH)>>),
   Page(<<Link(EN_US_RAW, U_B), Link(X_DEFAULT, <<>>)>>)}
\* records as analyze_single_url returns them
SummaryRecords ==
  UNION {Range(analyze_single_url(u, o)) : u \in PageUrls, o \in SummaryOutcomes}
IndexPermutations(n) ==
  {p \in [1..n -> 1..n] : \A a, b \in 1..n : p[a] = p[b] => a = b}
Shuffled(rd, p) == [k \in 1..Len(rd) |-> rd[p[k]]]

SummaryInit ==
  /\ sum_in \in StringsUpTo(SummaryRecords, MaxSummaryRecords)
  /\ sum_perm \in IndexPermutations(Len(sum_in))
  /\ sum_out = <<>>
  /\ sum_out_perm = <<>>
  /\ sum_pc = "call"
  /\ IdleTag /\ IdleMain /\ IdleSitemap

\* generate_summary(sum_in) and generate_summary of the shuffled collection
Summarize ==
  /\ sum_pc = "call"
  /\ sum_out' = generate_summary(sum_in)
  /\ sum_out_perm' = generate_summary(Shuffled(sum_in, sum_perm))
  /\ sum_pc' = "done"
  /\ UNCHANGED <<sum_in, sum_perm, tagVars, mainVars, smVars>>

SummaryNext == Summarize
SpecSummary == SummaryInit /\ [][SummaryNext]_vars

\* a histogram as the mapping it is: its message -> count pairs, each message once
Histogram(d) == {d[k] : k \in 1..Len(d)}
KeysOnce(d) == \A a, b \in 1..Len(d) : d[a][1] = d[b][1] => a = b

\* C8: the summary of a shuffled collection has the same six counts and the
\* same warning and error histograms as the summary of the collection.
C8_SummaryOrderIndependent ==
  sum_pc = "done" =>
    /\ sum_out_perm.total_entries = sum_out.total_entries
    /\ sum_out_perm.unique_urls = sum_out.unique_urls
    /\ sum_out_perm.languages = sum_out.languages
    /\ sum_out_perm.regions = sum_out.regions
    /\ sum_out_perm.warnings = sum_out.warnings
    /\ sum_out_perm.errors = sum_out.errors
    /\ KeysOnce(sum_out.common_warnings) /\ KeysOnce(sum_out_perm.common_warnings)
    /\ KeysOnce(sum_out.common_errors) /\ KeysOnce(sum_out_perm.common_errors)
    /\ Histogram(sum_out_perm.common_warnings) = Histogram(sum_out.common_warnings)
    /\ Histogram(sum_out_perm.common_errors) = Histogram(sum_out.common_errors)

\* a shuffle that changes the order in which the messages are first met
C8_Witness ==
  /\ sum_pc = "done"
  /\ Len(sum_in) = 3
  /\ sum_out.common_errors # sum_out_perm.common_errors
  /\ \E k \in 1..Len(sum_out.common_errors) : sum_out.common_errors[k][2] = 2
  /\ sum_out.common_warnings # <<>>

----------------------------------------------------------------------------
(* extract_urls_from_sitemap *)

SitemapUrls == {"s0", "s1", "s2"}
RootSitemap == "s0"
\* sitemap URLs that never serve a sitemap index
LeafSitemaps == {"s2"}
Locs3 == <<"p1", "p2", "p3">>
Locs5 == <<"p4", "p5", "p6", "p7", "p8">>

\* what the fetch of a sitemap URL gives: an exception (network error, non-2xx
\* status, malformed XML), a sitemap index with its <sitemap><loc> texts or a
\* urlset with its <url><loc> texts, in document order
SitemapDocs ==
  {[kind |-> "fail", locs |-> <<>>]}
    \cup {[kind |-> "sitemapindex", locs |-> c] : c \in StringsUpTo(SitemapUrls, MaxChildren)}
    \cup {[kind |-> "urlset", locs |-> l] : l \in {<<>>, Locs3, Locs5}}

Top == stack[Len(stack)]
Frame(u) == [url |-> u, at |-> "fetch", exc |-> "", j |-> 0, urls |-> <<>>]
SetTop(f) == [stack EXCEPT ![Len(stack)] = f]

SitemapInit ==
  /\ web \in {w \in [SitemapUrls -> SitemapDocs] :
                 \A u \in LeafSitemaps : w[u].kind # "sitemapindex"}
  \* whether the stack left where RecursionError is raised holds the call
  \* of st.error: it depends on the build, not on the run
  /\ handler_fits \in BOOLEAN
  /\ stack = <<>>
  /\ ret = <<>>
  /\ reported = <<>>
  /\ fetches = [u \in SitemapUrls |-> 0]
  /\ overflowed = FALSE
  /\ sm_pc = "start"
  /\ IdleTag /\ IdleMain /\ IdleSummary

\* main calls extract_urls_from_sitemap(sitemap_url) (line 318)
Resolve ==
  /\ sm_pc = "start"
  /\ stack' = <<Frame(RootSitemap)>>
  /\ sm_pc' = "running"
  /\ UNCHANGED <<web, handler_fits, ret, reported, fetches, overflowed, tagVars, mainVars, sumVars>>

\* lines 32-37 of the call on top of the stack: the request and the parse
\* raise or give the document; past the interpreter's recursion limit the
\* request raises RecursionError before anything is fetched
Fetch ==
  /\ sm_pc = "running"
  /\ Top.at = "fetch"
  /\ IF Len(stack) > RecursionLimit
     THEN /\ stack' = SetTop([Top EXCEPT !.at = "except", !.exc = "RecursionError"])
          /\ overflowed' = TRUE
          /\ UNCHANGED fetches
     ELSE /\ fetches' = [fetches EXCEPT ![Top.url] = @ + 1]
          /\ stack' = SetTop(IF web[Top.url].kind = "fail"
                             THEN [Top EXCEPT !.at = "except", !.exc = "fetch"]
                             ELSE [Top EXCEPT !.at = "loop"])
          /\ UNCHANGED overflowed
  /\ UNCHANGED <<web, handler_fits, ret, reported, sm_pc, tagVars, mainVars, sumVars>>

\* mutant: a sitemap that is already being expanded is not expanded again
RecurseUnlessVisited ==
  /\ sm_pc = "running"
  /\ Top.at = "loop"
  /\ web[Top.url].kind = "sitemapindex"
  /\ Top.j < Len(web[Top.url].locs)
  /\ LET child == web[Top.url].locs[Top.j + 1]
     IN stack' = IF \E k \in 1..Len(stack) : stack[k].url = child
                 THEN SetTop([Top EXCEPT !.j = @ + 1])
                 ELSE Append(SetTop([Top EXCEPT !.j = @ + 1]), Frame(child))
  /\ UNCHANGED <<web, handler_fits, ret, reported, fetches, overflowed, sm_pc,
                 tagVars, mainVars, sumVars>>

\* one iteration of the loop of lines 41-42: the recursive call for the next
\* <sitemap><loc> of a sitemap index
Recurse ==
  /\ sm_pc = "running"
  /\ Top.at = "loop"
  /\ web[Top.url].kind = "sitemapindex"
  /\ Top.j < Len(web[Top.url].locs)
  /\ stack' = Append(SetTop([Top EXCEPT !.j = @ + 1]),
                     Frame(web[Top.url].locs[Top.j + 1]))
  /\ UNCHANGED <<web, handler_fits, ret, reported, fetches, overflowed, sm_pc,
                 tagVars, mainVars, sumVars>>

\* the value v of the call on top goes to its caller: urls.extend(v) in the
\* caller's loop (line 42), or the result of the resolution
ReturnTo(v) ==
  IF Len(stack) = 1
  THEN /\ ret' = v
       /\ stack' = <<>>
       /\ sm_pc' = "done"
  ELSE /\ stack' = [SubSeq(stack, 1, Len(stack) - 1)
                      EXCEPT ![Len(stack) - 1].urls = @ \o v]
       /\ UNCHANGED <<ret, sm_pc>>

\* return urls (line 48): of a urlset after the loop of lines 45-46, of a
\* sitemap index after its last <sitemap><loc>
Return ==
  /\ sm_pc = "running"
  /\ Top.at = "loop"
  /\ \/ /\ web[Top.url].kind = "urlset"
        /\ ReturnTo(Top.urls \o web[Top.url].locs)
     \/ /\ web[Top.url].kind = "sitemapindex"
        /\ Top.j = Len(web[Top.url].locs)
        /\ ReturnTo(Top.urls)
  /\ UNCHANGED <<web, handler_fits, reported, fetches, overflowed, tagVars, mainVars, sumVars>>

\* mutant: the handler raises again, so the failure of a sitemap ends the
\* calls that led to it
HandleExceptionReraise ==
  /\ sm_pc = "running"
  /\ Top.at = "except"
  /\ reported' = Append(reported, Top.url)
  /\ IF Len(stack) = 1
     THEN ReturnTo(<<>>)
     ELSE /\ stack' = [SubSeq(stack, 1, Len(stack) - 1)
                         EXCEPT ![Len(stack) - 1].at = "except",
                                ![Len(stack) - 1].exc = Top.exc]
          /\ UNCHANGED <<ret, sm_pc>>
  /\ UNCHANGED <<web, handler_fits, fetches, overflowed, tagVars, mainVars, sumVars>>

\* the call on top handles a RecursionError where the stack is exhausted and
\* does not hold the call of st.error
HandlerOverflows ==
  Top.exc = "RecursionError" /\ Len(stack) = RecursionLimit + 1 /\ ~handler_fits

\* except Exception (lines 49-51): st.error reports the sitemap, the call
\* returns []
HandleException ==
  /\ sm_pc = "running"
  /\ Top.at = "except"
  /\ ~HandlerOverflows
  /\ reported' = Append(reported, Top.url)
  /\ ReturnTo(<<>>)
  /\ UNCHANGED <<web, handler_fits, fetches, overflowed, tagVars, mainVars, sumVars>>

\* the handler of a RecursionError runs on the exhausted stack: when st.error
\* does not fit it raises RecursionError itself, which leaves the call and is
\* caught by the try block of the caller, whose call at line 42 it interrupts
HandlerOverflow ==
  /\ sm_pc = "running"
  /\ Top.at = "except"
  /\ HandlerOverflows
  /\ Len(stack) > 1
  /\ stack' = [SubSeq(stack, 1, Len(stack) - 1)
                 EXCEPT ![Len(stack) - 1].at = "except",
                        ![Len(stack) - 1].exc = "RecursionError"]
  /\ UNCHANGED <<web, handler_fits, ret, reported, fetches, overflowed, sm_pc,
                 tagVars, mainVars, sumVars>>

SitemapNext ==
  Resolve \/ Fetch \/ Recurse \/ Return \/ HandleException \/ HandlerOverflow
SpecSitemap == SitemapInit /\ [][SitemapNext]_vars
\* a call goes on to its return: it waits on nothing but its request, which
\* is given a timeout
FairSpecSitemap == SpecSitemap /\ WF_vars(SitemapNext)

----------------------------------------------------------------------------
(* Claims about the sitemap resolver *)

\* the <sitemap><loc> references a fetched document is expanded into
Children(u) == IF web[u].kind = "sitemapindex" THEN web[u].locs ELSE <<>>

RECURSIVE ReachableFrom(_)
ReachableFrom(S) ==
  LET T == S \cup UNION {Range(Children(u)) : u \in S}
  IN IF T = S THEN S ELSE ReachableFrom(T)

\* the expansion of the root meets a sitemap index that references itself,
\* directly or through other indexes
ReachableCycle ==
  \E u \in ReachableFrom({RootSitemap}) : u \in ReachableFrom(Range(Children(u)))

\* on a graph without a reachable cycle: the nesting depth of the expansion
\* of u, the references from u to v, the URLs and the reports u resolves to
RECURSIVE Depth(_)
Depth(u) ==
  LET c == Children(u)
  IN 1 + (IF c = <<>> THEN 0
          ELSE LET d == {Depth(c[k]) : k \in 1..Len(c)}
               IN CHOOSE x \in d : \A y \in d : y <= x)

RECURSIVE References(_, _)
References(u, v) ==
  LET c == Children(u)
  IN (IF u = v THEN 1 ELSE 0)
       + Len(Flatten([k \in 1..Len(c) |-> [m \in 1..References(c[k], v) |-> 0]]))

RECURSIVE Resolved(_)
Resolved(u) ==
  IF web[u].kind = "fail" THEN <<>>
  ELSE IF web[u].kind = "urlset" THEN web[u].locs
  ELSE Flatten([k \in 1..Len(web[u].locs) |-> Resolved(web[u].locs[k])])

RECURSIVE Reports(_)
Reports(u) ==
  IF web[u].kind = "fail" THEN <<u>>
  ELSE IF web[u].kind = "urlset" THEN <<>>
  ELSE Flatten([k \in 1..Len(web[u].locs) |-> Reports(web[u].locs[k])])

\* C3: a sitemap index resolves to the concatenation, in document order, of
\* what its <sitemap><loc> entries resolve to, a urlset to its <url><loc>
\* values; a sitemap whose fetch or parse fails contributes nothing, is
\* reported, and its siblings are still returned.  (Within the interpreter's
\* recursion limit: no RecursionError was raised.)
C3_IndexConcatenatesChildren ==
  (sm_pc = "done" /\ ~overflowed) =>
    /\ ret = Resolved(RootSitemap)
    /\ reported = Reports(RootSitemap)

\* the first of two sitemaps of an index fails, the five URLs of the second
\* are returned
C3_Witness ==
  /\ sm_pc = "done"
  /\ ~overflowed
  /\ web["s0"] = [kind |-> "sitemapindex", locs |-> <<"s1", "s2">>]
  /\ web["s1"].kind = "fail"
  /\ web["s2"] = [kind |-> "urlset", locs |-> Locs5]
  /\ ret = Locs5
  /\ reported = <<"s1">>

\* C9 as stated: an acyclic graph is resolved with one fetch per reference,
\* and the expansion of a sitemap index that references itself never ends.
C9_CyclicNeverReturns ==
  /\ (sm_pc = "done" /\ ~ReachableCycle /\ ~overflowed)
       => \A u \in SitemapUrls : fetches[u] = References(RootSitemap, u)
  /\ ReachableCycle => sm_pc # "done"

C9_Safety ==
  /\ Len(stack) <= RecursionLimit + 1
  /\ (sm_pc = "done" /\ ReachableCycle) => overflowed
  /\ (sm_pc = "done" /\ ~ReachableCycle /\ ~overflowed)
       => \A u \in SitemapUrls : fetches[u] = References(RootSitemap, u)
  /\ overflowed => (ReachableCycle \/ Depth(RootSitemap) > RecursionLimit)

\* C9 amended: the resolver has no visited set and no depth limit of its own.
\* A graph that nests within the interpreter's recursion limit is resolved
\* with one fetch per reference; the expansion of a sitemap index that
\* references itself goes on until the interpreter raises RecursionError,
\* which the resolver's except clause catches, and the call returns.
C9_BoundedByInterpreterOnly == [](C9_Safety) /\ <>(sm_pc = "done")

\* a sitemap index whose only entry is itself: fetched at every nesting
\* level the interpreter allows, then the call returned
C9_Witness ==
  /\ sm_pc = "done"
  /\ web[RootSitemap] = [kind |-> "sitemapindex", locs |-> <<RootSitemap>>]
  /\ overflowed
  /\ fetches[RootSitemap] = RecursionLimit
  /\ ret = <<>>

\* a tag of the shape xx or xx-yy in lower case, nothing before or after
StrictTag(s) ==
  \/ Len(s) = 2 /\ \A k \in 1..2 : s[k] \in Lowercase
  \/ Len(s) = 5 /\ s[3] = "-" /\ \A k \in {1, 2, 4, 5} : s[k] \in Lowercase

\* C5: a tag that matches ^[a-z]{2}(-[a-z]{2})?$ or is x-default gets no
\* "Invalid hreflang format"; every other string gets it exactly once.
C5_FormatCheckExact ==
  tag_pc = "done" =>
    IF StrictTag(lang) \/ lang = X_DEFAULT
    THEN Count(tag_out.errors, ERR_FORMAT) = 0
    ELSE Count(tag_out.errors, ERR_FORMAT) = 1

\* C7: "Self-reference without region" is in the errors exactly when the target
\* equals the source, the tag has no '-' and the tag is not x-default, whatever
\* the other checks report.
C7_SelfReferenceIff ==
  tag_pc = "done" =>
    /\ Count(tag_out.errors, ERR_SELF) <= 1
    /\ ERR_SELF \in Range(tag_out.errors)
         <=> /\ href = source_url
             /\ \A k \in 1..Len(lang) : lang[k] # "-"
             /\ lang # X_DEFAULT

\* the error appears beside another check's error and beside a warning
C7_Witness ==
  /\ tag_pc = "done"
  /\ href = source_url
  /\ ERR_SELF \in Range(tag_out.errors)
  /\ ERR_FORMAT \in Range(tag_out.errors)

====
